---- MODULE Spec2Model ----
(***************************************************************************)
(* Model of the semantic retrieval engine of rag-project:                  *)
(*   app/services/vectorstore.py  VectorStoreService (FAISS IndexFlatIP    *)
(*                                plus the parallel chunk list)            *)
(*   app/services/evaluation.py   EvaluationService                        *)
(*   app/services/chunker.py      ChunkerService                           *)
(*   app/services/rag_pipeline.py RAGPipeline                              *)
(*   scripts/ingest.py            the ingestion job, with the loader of    *)
(*                                app/services/document_loader.py          *)
(*                                                                         *)
(* Numbers.  Vector components, scores and thresholds are fixed-point      *)
(* values in hundredths: 65 stands for 0.65 and <<60, 80>> for the unit    *)
(* vector (0.6, 0.8).  The embeddings of the model have integer norms, so  *)
(* L2 normalisation and inner products are exact.                          *)
(***************************************************************************)
EXTENDS Integers, Sequences, FiniteSets, TLC

VARIABLES
    index,          \* VectorStoreService._index : [created, rows]
    chunks,         \* VectorStoreService._chunks : sequence of Chunk
    index_file,     \* the artifact at settings.faiss_index_full_path
    metadata_file,  \* the artifact at settings.faiss_metadata_full_path
    call,           \* the last call made on the service and its outcome
    ingest_job,     \* scripts/ingest.py running in a process of its own: [pc, run]
    serving_load    \* the position of the serving process inside load(): [pc]

vars == <<index, chunks, index_file, metadata_file, call, ingest_job, serving_load>>

(***************************************************************************)
(* Bounds of the model.                                                    *)
(***************************************************************************)
\* most chunks the store holds
MaxChunks == 2
\* largest k of a search
MaxK == 2
MaxRuns == 2
\* number of coordinates of a vector (settings.embedding_dimension, 384 in
\* config.py, scaled down)
Dimension == 2

(***************************************************************************)
(* Program constants (hundredths).                                         *)
(***************************************************************************)
min_similarity_score == 65
RELEVANCE_HIGH == 80
RELEVANCE_MEDIUM == 65
normalize_embeddings == TRUE

(***************************************************************************)
(* Small helpers.                                                          *)
(***************************************************************************)
Min(a, b) == IF a <= b THEN a ELSE b

RECURSIVE SumSeq(_)
SumSeq(s) == IF s = <<>> THEN 0 ELSE Head(s) + SumSeq(Tail(s))

\* a 2-coordinate vector laid out in Dimension coordinates
Vec(x, y) == [i \in 1..Dimension |-> IF i = 1 THEN x ELSE IF i = 2 THEN y ELSE 0]

(***************************************************************************)
(* Vectors: faiss.normalize_L2 and the inner product of IndexFlatIP.       *)
(***************************************************************************)
SumSq(v) == SumSeq([i \in 1..Len(v) |-> v[i] * v[i]])

\* the L2 norm; exact for the vectors of the model
Norm(v) == CHOOSE n \in 0..SumSq(v) : n * n = SumSq(v)

\* v divided by its norm; a zero vector is left as it is
Scaled(v, norm) ==
    IF norm = 0 THEN v
    ELSE [i \in 1..Len(v) |-> (v[i] * 100) \div norm]

\* faiss.normalize_L2 on one row
normalize_L2(v) == Scaled(v, Norm(v))

\* the matrix row built from one embedding (np.array + optional normalisation)
Row(e) == IF normalize_embeddings THEN normalize_L2(e) ELSE e

InnerProduct(a, b) == SumSeq([i \in 1..Len(a) |-> a[i] * b[i]]) \div 100

(***************************************************************************)
(* Chunks (app/models/domain.py).  embedding = None is has_embedding =     *)
(* FALSE.                                                                  *)
(***************************************************************************)
Chunk(id, source, e) ==
    [id |-> id, source |-> source, has_embedding |-> TRUE, embedding |-> e]

ChunkNoEmbedding(id, source) ==
    [id |-> id, source |-> source, has_embedding |-> FALSE, embedding |-> <<>>]

\* the chunks an ingestion hands to the store: two embedded chunks of two
\* sources (one of them not of unit length), one chunk that was never
\* embedded and one whose embedding has a coordinate too many
ChunkPool ==
    { Chunk("a.txt_chunk_0", "a.txt", Vec(1, 0)),
      Chunk("b.txt_chunk_0", "b.txt", Vec(6, 8)),
      ChunkNoEmbedding("b.txt_chunk_1", "b.txt"),
      Chunk("c.txt_chunk_0", "c.txt", Vec(1, 0) \o <<1>>) }

\* the lists handed to add_chunks: none, one or two chunks
Batches ==
    { <<>> } \cup { <<c>> : c \in ChunkPool } \cup { <<c, d>> : c, d \in ChunkPool }

\* query embeddings, as embed_text returns them
Queries == { Vec(1, 0), Vec(4, 3), Vec(-1, 0) }

\* min_score: None, or a float
NoScore == [supplied |-> FALSE, v |-> 0]
Score(v) == [supplied |-> TRUE, v |-> v]
MinScores == { NoScore, Score(-70), Score(0), Score(50), Score(90) }

(***************************************************************************)
(* The FAISS index.                                                        *)
(***************************************************************************)
\* self._index = None
NoIndex == [created |-> FALSE, rows |-> <<>>]

\* faiss.IndexFlatIP(dimension): an empty index
IndexFlatIP == [created |-> TRUE, rows |-> <<>>]

\* index.ntotal; an index that was never created has no row
ntotal(ix) == Len(ix.rows)

\* one candidate of a search; idx is 0-based, -1 is the "no result" slot
Candidate(score, idx) == [score |-> score, idx |-> idx]

\* the inner product of the query with every row
RowScores(rows, q) == [i \in 1..Len(rows) |-> InnerProduct(q, rows[i])]

RECURSIVE RankDesc(_, _)
\* the rows of S by descending score, ties by ascending row number
RankDesc(scores, S) ==
    IF S = {} THEN <<>>
    ELSE LET best == CHOOSE i \in S : \A j \in S :
                         scores[i] > scores[j] \/ (scores[i] = scores[j] /\ i <= j)
         IN  <<Candidate(scores[best], best - 1)>> \o RankDesc(scores, S \ {best})

\* search_k slots: the ranked rows, then slots with idx -1
Slots(ranked, search_k) ==
    [i \in 1..search_k |->
        IF i <= Len(ranked) THEN ranked[i] ELSE Candidate(-100000, -1)]

\* index.search(query_vec, search_k): search_k slots in descending score
\* order, the slots past the last row filled with idx -1
IndexFlatIP_search(ix, q, search_k) ==
    Slots(RankDesc(RowScores(ix.rows, q), 1..Len(ix.rows)), search_k)

(***************************************************************************)
(* VectorStoreService.  Every method is an operator from the state it runs *)
(* in to its outcome: the exception it raises ("" when it returns) and the *)
(* fields it leaves behind; the actions below apply them.                  *)
(***************************************************************************)
OK == ""
ERR_NO_VALID_CHUNK == "VectorStoreError: Aucun chunk avec embedding a ajouter"
ERR_ADD_FAILED == "VectorStoreError: Echec de l'ajout des chunks"
ERR_EMPTY_INDEX == "VectorStoreError: Index vide ou non charge"
ERR_SEARCH_FAILED == "VectorStoreError: Echec de la recherche"
ERR_NOTHING_TO_SAVE == "VectorStoreError: Aucun index a sauvegarder"
ERR_INDEX_NOT_FOUND == "VectorStoreError: Index introuvable"
ERR_METADATA_NOT_FOUND == "VectorStoreError: Metadonnees introuvables"
ERR_LOAD_FAILED == "VectorStoreError: Echec du chargement"

\* a file that does not exist, and a file holding data
NoFile == [exists |-> FALSE, data |-> <<>>]
File(data) == [exists |-> TRUE, data |-> data]

\* create_index: a new empty index replaces self._index; self._chunks is
\* not touched
create_index(ix) == IndexFlatIP

\* valid_chunks = [c for c in chunks if c.embedding is not None]
valid_chunks(input) == SelectSeq(input, LAMBDA c : c.has_embedding)

\* np.array(..., dtype=float32) of rows of unequal length, or index.add of
\* rows that are not of the index's dimension, raises inside the try block
MatrixFits(valid) == \A i \in 1..Len(valid) : Len(valid[i].embedding) = Dimension

\* self._index.add(embeddings)
IndexAdd(ix, valid) ==
    [ix EXCEPT !.rows = @ \o [i \in 1..Len(valid) |-> Row(valid[i].embedding)]]

\* self._chunks.extend(valid_chunks)
ChunksExtend(cs, valid) == cs \o valid

add_chunks(ix, cs, input) ==
    LET ix1 == IF ~ix.created THEN create_index(ix) ELSE ix
        valid == valid_chunks(input)
    IN  IF valid = <<>>
        THEN [raised |-> ERR_NO_VALID_CHUNK, index |-> ix1, chunks |-> cs]
        ELSE IF ~MatrixFits(valid)
        THEN [raised |-> ERR_ADD_FAILED, index |-> ix1, chunks |-> cs]
        ELSE [raised |-> OK, index |-> IndexAdd(ix1, valid),
              chunks |-> ChunksExtend(cs, valid)]

\* min_score = min_score or settings.min_similarity_score: Python's `or`
\* takes the right operand when the left one is None or 0.0
EffectiveMinScore(min_score) ==
    IF min_score.supplied /\ min_score.v # 0 THEN min_score.v
    ELSE min_similarity_score

_get_relevance_level(score) ==
    IF score >= RELEVANCE_HIGH THEN "high"
    ELSE IF score >= RELEVANCE_MEDIUM THEN "medium"
    ELSE "low"

\* the loop's two `continue`s: the "no result" slot and the score filter
Keeps(c, threshold) == c.idx # -1 /\ ~(c.score < threshold)

\* SearchResult(chunk=self._chunks[idx], score=..., relevance=...) raises for
\* an idx past the chunk list (IndexError) and for a score outside [0, 1]
\* (the model's Field(ge=0.0, le=1.0))
Constructible(c, cs) == c.idx < Len(cs) /\ c.score >= 0 /\ c.score <= 100

SearchResult(c, cs) ==
    [chunk |-> cs[c.idx + 1], score |-> c.score,
     relevance |-> _get_relevance_level(c.score)]

\* a loop that puts each new result in front of the earlier ones
CollectResults_Prepend(kept, cs) ==
    [i \in 1..Len(kept) |-> SearchResult(kept[Len(kept) + 1 - i], cs)]

\* results.append in candidate order
CollectResults(kept, cs) == [i \in 1..Len(kept) |-> SearchResult(kept[i], cs)]

\* a search that forgets to cut its results
TopK_Uncut(results, k) == results

\* results = results[:k]
TopK(results, k) == SubSeq(results, 1, Min(k, Len(results)))

\* the candidates the index hands to the loop of search
SearchCandidates(ix, cs, q, k) ==
    IndexFlatIP_search(ix, Row(q), Min(k * 2, Len(cs)))

\* the candidates that pass the loop's two `continue`s
Kept(candidates, threshold) == SelectSeq(candidates, LAMBDA c : Keeps(c, threshold))

\* the try block of search, from the candidates that were kept: one result
\* that cannot be built fails the whole call
SearchOutcome(kept, cs, k) ==
    IF \E i \in 1..Len(kept) : ~Constructible(kept[i], cs)
    THEN [raised |-> ERR_SEARCH_FAILED, results |-> <<>>]
    ELSE [raised |-> OK, results |-> TopK(CollectResults(kept, cs), k)]

search(ix, cs, q, k, min_score) ==
    IF ~ix.created \/ Len(cs) = 0
    THEN [raised |-> ERR_EMPTY_INDEX, results |-> <<>>]
    ELSE SearchOutcome(Kept(SearchCandidates(ix, cs, q, k),
                            EffectiveMinScore(min_score)), cs, k)

\* the coordinates of the rows, one after the other
RECURSIVE Flatten(_)
Flatten(rows) ==
    IF rows = <<>> THEN <<>> ELSE Head(rows) \o Flatten(Tail(rows))

\* faiss.write_index: the stream holds d, ntotal, then ntotal * d coordinates
write_index(ix) == <<Dimension, ntotal(ix)>> \o Flatten(ix.rows)

\* a stream read_index accepts: a whole header and every coordinate it announces
IndexReadable(data) ==
    /\ Len(data) >= 2
    /\ Len(data) = 2 + data[1] * data[2]

\* faiss.read_index: cuts the coordinates into ntotal rows of d
read_index(data) ==
    [created |-> TRUE,
     rows |-> [i \in 1..data[2] |->
                  [j \in 1..data[1] |-> data[2 + (i - 1) * data[1] + j]]]]

\* pickle.dump: the stream holds one object, the chunk list
pickle_dump(cs) == <<cs>>

\* a stream pickle.load accepts
Unpicklable(data) == Len(data) # 1

pickle_load(data) == data[1]

\* a save that writes the index artifact and leaves the chunk artifact alone
save_IndexOnly(ix, cs, ifile, mfile) ==
    IF ~ix.created
    THEN [raised |-> ERR_NOTHING_TO_SAVE, index_file |-> ifile, metadata_file |-> mfile]
    ELSE [raised |-> OK, index_file |-> File(write_index(ix)), metadata_file |-> mfile]

\* save: refuses only an index that is None, then writes both artifacts
save(ix, cs, ifile, mfile) ==
    IF ~ix.created
    THEN [raised |-> ERR_NOTHING_TO_SAVE, index_file |-> ifile, metadata_file |-> mfile]
    ELSE [raised |-> OK, index_file |-> File(write_index(ix)),
          metadata_file |-> File(pickle_dump(cs))]

\* a load that checks the index artifact only
MissingArtifact_IndexOnly(ifile, mfile) ==
    IF ~ifile.exists THEN ERR_INDEX_NOT_FOUND ELSE OK

\* the two exists() checks of load, in their order
MissingArtifact(ifile, mfile) ==
    IF ~ifile.exists THEN ERR_INDEX_NOT_FOUND
    ELSE IF ~mfile.exists THEN ERR_METADATA_NOT_FOUND
    ELSE OK

\* load: the index is assigned as soon as it is read, the chunk list after
\* it; a read that raises leaves the assignments made before it
load(ix, cs, ifile, mfile) ==
    IF MissingArtifact(ifile, mfile) # OK
    THEN [raised |-> MissingArtifact(ifile, mfile), index |-> ix, chunks |-> cs]
    ELSE IF ~IndexReadable(ifile.data)
    THEN [raised |-> ERR_LOAD_FAILED, index |-> ix, chunks |-> cs]
    ELSE IF Unpicklable(mfile.data)
    THEN [raised |-> ERR_LOAD_FAILED, index |-> read_index(ifile.data), chunks |-> cs]
    ELSE [raised |-> OK, index |-> read_index(ifile.data),
          chunks |-> pickle_load(mfile.data)]

\* an is_loaded that looks at the index only
is_loaded_IndexOnly(ix, cs) == ix.created

is_loaded(ix, cs) == ix.created /\ Len(cs) > 0

get_total_chunks(cs) == Len(cs)

\* clear: both fields reset
clear(ix, cs) == [index |-> NoIndex, chunks |-> <<>>]

(***************************************************************************)
(* EvaluationService (app/services/evaluation.py).  A query is identified  *)
(* with the embedding embed_text returns for it.  Ratios are exact         *)
(* fractions; round(x, 3) is their nearest number of thousandths.          *)
(***************************************************************************)
Frac(n, d) == [num |-> n, den |-> d]

FracAdd(a, b) == Frac(a.num * b.den + b.num * a.den, a.den * b.den)

RECURSIVE FracSum(_)
FracSum(fs) == IF fs = <<>> THEN Frac(0, 1) ELSE FracAdd(Head(fs), FracSum(Tail(fs)))

\* round(x, 3), in thousandths, for x >= 0; a tie goes to the even neighbour
Round3(f) ==
    LET twice == (2000 * f.num) \div f.den
        exact == (2000 * f.num) % f.den = 0
        floor == twice \div 2
    IN  IF twice % 2 = 0 THEN floor
        ELSE IF exact /\ floor % 2 = 0 THEN floor
        ELSE floor + 1

\* a recall that is 0 when nothing is expected
_calculate_recall_EmptyIsZero(expected, found) ==
    IF expected = {} THEN Frac(0, 1)
    ELSE Frac(Cardinality(expected \cap found), Cardinality(expected))

_calculate_recall(expected, found) ==
    IF expected = {} THEN Frac(1, 1)
    ELSE Frac(Cardinality(expected \cap found), Cardinality(expected))

_calculate_precision(expected, found) ==
    IF found = {} THEN Frac(0, 1)
    ELSE Frac(Cardinality(expected \cap found), Cardinality(found))

\* the threshold evaluate_queries hands to search: min_score=0.0
EVALUATION_MIN_SCORE == Score(0)

\* sum(r.score for r in results) / len(results) if results else 0.0
AvgScore(results) ==
    IF results = <<>> THEN Frac(0, 1)
    ELSE Frac(SumSeq([i \in 1..Len(results) |-> results[i].score]), 100 * Len(results))

\* what one turn of the loop of evaluate_queries computes from its results
Turn(query_data, raised, results, found_sources) ==
    [raised |-> raised,
     recall |-> _calculate_recall(query_data.expected_sources, found_sources),
     precision |-> _calculate_precision(query_data.expected_sources, found_sources),
     avg_score |-> AvgScore(results),
     detail |-> [query |-> query_data.query,
                 recall |-> Round3(_calculate_recall(query_data.expected_sources,
                                                     found_sources)),
                 precision |-> Round3(_calculate_precision(query_data.expected_sources,
                                                           found_sources)),
                 avg_score |-> Round3(AvgScore(results)),
                 found_sources |-> found_sources,
                 expected_sources |-> query_data.expected_sources,
                 retrieved_count |-> Len(results)]]

\* found_sources = set([r.chunk.metadata.source for r in results])
FoundSources(results) == { results[i].chunk.source : i \in 1..Len(results) }

TurnOf(query_data, out) ==
    Turn(query_data, out.raised, out.results, FoundSources(out.results))

\* one turn of the loop of evaluate_queries: search with min_score=0.0
EvaluateOne(ix, cs, query_data, k) ==
    TurnOf(query_data, search(ix, cs, query_data.query, k, EVALUATION_MIN_SCORE))

NoReport ==
    [recall_at_k |-> 0, precision_at_k |-> 0, avg_similarity |-> 0,
     total_queries |-> 0, details |-> <<>>]

\* the mean of a list of fractions, rounded
MeanRound3(fs) ==
    LET total == FracSum(fs)
    IN  Round3(Frac(total.num, total.den * Len(fs)))

\* what evaluate_queries makes of the turns of its loop
EvaluationOutcome(turns) ==
    LET n == Len(turns)
    IN  IF \E i \in 1..n : turns[i].raised # OK
        THEN [raised |-> turns[CHOOSE i \in 1..n : /\ turns[i].raised # OK
                                                   /\ \A j \in 1..(i - 1) :
                                                          turns[j].raised = OK].raised,
              report |-> NoReport]
        ELSE [raised |-> OK,
              report |-> [recall_at_k |-> MeanRound3([i \in 1..n |-> turns[i].recall]),
                          precision_at_k |->
                              MeanRound3([i \in 1..n |-> turns[i].precision]),
                          avg_similarity |->
                              MeanRound3([i \in 1..n |-> turns[i].avg_score]),
                          total_queries |-> n,
                          details |-> [i \in 1..n |-> turns[i].detail]]]

\* evaluate_queries: the first search that raises ends the evaluation
evaluate_queries(ix, cs, queries, k) ==
    EvaluationOutcome([i \in 1..Len(queries) |-> EvaluateOne(ix, cs, queries[i], k)])

\* the labelled queries of an evaluation request, and the requests: one or
\* two of them
QueryData ==
    { [query |-> q, expected_sources |-> e] :
        q \in { Vec(1, 0), Vec(4, 3) }, e \in { {}, {"a.txt", "z.txt"} } }

EvaluationRequests ==
    { <<d>> : d \in QueryData } \cup { <<d, e>> : d, e \in QueryData }

\* the source names the sets of expected and found sources are made of
SourceNames == {"a.txt", "b.txt", "c.txt", "z.txt"}

(***************************************************************************)
(* ChunkerService (app/services/chunker.py).  A text is the sequence of    *)
(* its characters.  Sizes are given in tokens, one token being four        *)
(* characters; an absent size is [supplied |-> FALSE].                     *)
(***************************************************************************)
chunk_size == 300
chunk_overlap == 50
CHARS_PER_TOKEN == 4

SEPARATOR_TOKEN == <<"\n", "\n">>

\* the characters str.strip() removes
Whitespace == {" ", "\n", "\t"}

Rep(c, n) == [i \in 1..n |-> c]

RECURSIVE lstrip(_)
lstrip(s) == IF s # <<>> /\ Head(s) \in Whitespace THEN lstrip(Tail(s)) ELSE s

RECURSIVE rstrip(_)
rstrip(s) ==
    IF s # <<>> /\ s[Len(s)] \in Whitespace
    THEN rstrip(SubSeq(s, 1, Len(s) - 1))
    ELSE s

strip(s) == rstrip(lstrip(s))

StartsWith(s, prefix) ==
    Len(s) >= Len(prefix) /\ SubSeq(s, 1, Len(prefix)) = prefix

\* str.split(sep) from the left; piece is the part read since the last sep
RECURSIVE SplitFrom(_, _, _)
SplitFrom(s, sep, piece) ==
    IF s = <<>> THEN <<piece>>
    ELSE IF StartsWith(s, sep)
    THEN <<piece>> \o SplitFrom(SubSeq(s, Len(sep) + 1, Len(s)), sep, <<>>)
    ELSE SplitFrom(Tail(s), sep, Append(piece, Head(s)))

split(s, sep) == SplitFrom(s, sep, <<>>)

\* s[i:j] for 0 <= i <= j
Slice(s, i, j) == SubSeq(s, i + 1, Min(j, Len(s)))

\* s[-n:] for n >= 0; s[-0:] is the whole of s
LastChars(s, n) ==
    IF n = 0 \/ n >= Len(s) THEN s ELSE SubSeq(s, Len(s) - n + 1, Len(s))

\* the slices para[i:i + size] for i in range(0, len(para), size - overlap)
HardSplit(para, size, overlap) ==
    [n \in 1..((Len(para) + (size - overlap) - 1) \div (size - overlap)) |->
        Slice(para, (n - 1) * (size - overlap), (n - 1) * (size - overlap) + size)]

\* the loop of _smart_chunk_by_chars over the paragraphs still to read
RECURSIVE AggregateParagraphs(_, _, _, _, _)
AggregateParagraphs(paragraphs, emitted, current_chunk, size, overlap) ==
    IF paragraphs = <<>>
    THEN IF current_chunk # <<>> THEN Append(emitted, current_chunk) ELSE emitted
    ELSE LET para == strip(Head(paragraphs))
             rest == Tail(paragraphs)
         IN  IF para = <<>>
             THEN AggregateParagraphs(rest, emitted, current_chunk, size, overlap)
             ELSE IF Len(current_chunk) + Len(para) + 2 > size
             THEN IF current_chunk # <<>>
                  THEN AggregateParagraphs(rest, Append(emitted, current_chunk),
                           LastChars(current_chunk, overlap) \o <<"\n", "\n">> \o para,
                           size, overlap)
                  ELSE IF Len(para) > size
                  THEN AggregateParagraphs(rest,
                           emitted \o HardSplit(para, size, overlap), <<>>,
                           size, overlap)
                  ELSE AggregateParagraphs(rest, emitted, para, size, overlap)
             ELSE IF current_chunk # <<>>
             THEN AggregateParagraphs(rest, emitted,
                      current_chunk \o <<"\n", "\n">> \o para, size, overlap)
             ELSE AggregateParagraphs(rest, emitted, para, size, overlap)

_smart_chunk_by_chars(text, size, overlap) ==
    IF Len(text) <= size THEN <<text>>
    ELSE AggregateParagraphs(split(text, SEPARATOR_TOKEN), <<>>, <<>>, size, overlap)

NoSize == [supplied |-> FALSE, v |-> 0]
Size(v) == [supplied |-> TRUE, v |-> v]

\* size or default: a size of 0 is falsy and gives way to the default
EffectiveSize(size, default) ==
    IF size.supplied /\ size.v # 0 THEN size.v ELSE default

ERR_EMPTY_TEXT == "ChunkingError: Le texte ne peut pas etre vide"
ERR_OVERLAP == "ChunkingError: L'overlap doit etre inferieur a la taille du chunk"
ERR_CHUNKING_FAILED == "ChunkingError: Echec du decoupage"

\* an id that does not tell the chunks of a source apart
ChunkId_SourceOnly(source, idx) == source \o "_chunk_0"

ChunkId(source, idx) == source \o "_chunk_" \o ToString(idx)

\* a chunk text kept as cut
ChunkText_AsCut(piece) == piece

\* the text given to Chunk: chunk_text.strip()
ChunkText(piece) == strip(piece)

\* the sum of the lengths of the first n pieces: current_pos before piece n+1
RECURSIVE CharsBefore(_, _)
CharsBefore(pieces, n) ==
    IF n = 0 THEN 0 ELSE CharsBefore(pieces, n - 1) + Len(pieces[n])

\* the Chunk built for pieces[i], index i - 1
ChunkObject(pieces, i, source, file_type) ==
    [id |-> ChunkId(source, i - 1),
     text |-> ChunkText(pieces[i]),
     has_embedding |-> FALSE,
     embedding |-> <<>>,
     source |-> source,
     chunk_index |-> i - 1,
     total_chunks |-> Len(pieces),
     file_type |-> file_type,
     char_count |-> Len(pieces[i]),
     start_char |-> CharsBefore(pieces, i - 1),
     end_char |-> CharsBefore(pieces, i)]

\* the loop building the chunks; Chunk refuses a text of length 0
ChunkObjects(pieces, source, file_type) ==
    IF \E i \in 1..Len(pieces) : Len(ChunkText(pieces[i])) < 1
    THEN [raised |-> ERR_CHUNKING_FAILED, chunks |-> <<>>]
    ELSE [raised |-> OK,
          chunks |-> [i \in 1..Len(pieces) |-> ChunkObject(pieces, i, source, file_type)]]

\* ChunkerService.__init__: the sizes of the settings, read from the environment
ChunkerService(configured_size, configured_overlap) ==
    [chunk_size |-> configured_size, overlap |-> configured_overlap]

\* the pieces chunk_text gets from _smart_chunk_by_chars
PiecesOf(self, text, size, overlap) ==
    _smart_chunk_by_chars(text,
        EffectiveSize(size, self.chunk_size) * CHARS_PER_TOKEN,
        EffectiveSize(overlap, self.overlap) * CHARS_PER_TOKEN)

\* chunk_text of a service built from given settings
chunk_text_of(self, text, source, file_type, size, overlap) ==
    IF text = <<>> \/ strip(text) = <<>>
    THEN [raised |-> ERR_EMPTY_TEXT, chunks |-> <<>>]
    ELSE IF EffectiveSize(overlap, self.overlap) >= EffectiveSize(size, self.chunk_size)
    THEN [raised |-> ERR_OVERLAP, chunks |-> <<>>]
    ELSE ChunkObjects(PiecesOf(self, text, size, overlap), source, file_type)

\* chunk_text of the service built from the settings as shipped
chunk_text(text, source, file_type, size, overlap) ==
    chunk_text_of(ChunkerService(chunk_size, chunk_overlap),
                  text, source, file_type, size, overlap)

\* the sizes an environment may configure, in tokens
ConfiguredSizes == {1, 2, 3}
ConfiguredOverlaps == {0, 1, 2, 3}

\* paragraphs joined by blank lines
Paragraphs2(p, q) == p \o SEPARATOR_TOKEN \o q
Paragraphs3(p, q, r) == p \o SEPARATOR_TOKEN \o q \o SEPARATOR_TOKEN \o r

\* the texts given to the chunker
Texts ==
    { <<>>,
      Rep(" ", 2),
      Rep("a", 3),
      <<" ">> \o Rep("a", 3) \o <<" ", "\n">>,
      Rep("a", 10),
      Paragraphs2(Rep("a", 6), Rep("b", 6)),
      Paragraphs2(Rep("a", 7), Rep("b", 1)),
      Paragraphs2(Rep("a", 2), Rep("b", 10)),
      Paragraphs3(Rep("a", 3), Rep("b", 2), Rep("c", 3)),
      Paragraphs3(<<>>, Rep("a", 9), <<" ">>),
      <<"a">> \o Rep(" ", 14) \o <<"b">>,
      <<"a", "\n", "\n", "\n", "b">> \o Rep("c", 8) }

\* the sizes a caller passes, in tokens
Sizes == {NoSize, Size(0), Size(1), Size(2), Size(3)}

(***************************************************************************)
(* The ingestion job (scripts/ingest.py) with the loader it calls          *)
(* (app/services/document_loader.py).  The job runs in a process of its    *)
(* own, so its store starts empty; the embedding model is outside the      *)
(* program and given by how it behaves.                                    *)
(***************************************************************************)
ERR_DIRECTORY_NOT_FOUND == "DocumentLoadError: Repertoire introuvable"

NoDirectory == [exists |-> FALSE, files |-> <<>>]
Directory(files) == [exists |-> TRUE, files |-> files]

\* a file of the directory: load_file returns its content or raises
DataFile(name, readable, content) ==
    [name |-> name, readable |-> readable, content |-> content]

\* load_directory: the files load_file could read, the others are ignored
load_directory(directory) ==
    IF ~directory.exists
    THEN [raised |-> ERR_DIRECTORY_NOT_FOUND, documents |-> <<>>]
    ELSE [raised |-> OK,
          documents |-> SelectSeq(directory.files, LAMBDA f : f.readable)]

\* the chunking loop: a document chunk_text refuses is logged and left out
RECURSIVE ChunkDocuments(_)
ChunkDocuments(documents) ==
    IF documents = <<>> THEN <<>>
    ELSE chunk_text(Head(documents).content, Head(documents).name, "txt",
                    NoSize, NoSize).chunks
             \o ChunkDocuments(Tail(documents))

\* the embedding model: vectors by the first character of the text
EmbeddingOf(text, embedder) ==
    IF embedder = "wrong_dimension" THEN [i \in 1..(Dimension + 1) |-> 1]
    ELSE IF Head(text) = "a" THEN Vec(1, 0)
    ELSE IF Head(text) = "b" THEN Vec(6, 8)
    ELSE Vec(4, 3)

\* zip(all_chunks, embeddings): chunk.embedding = embedding
AttachEmbeddings(all_chunks, embedder) ==
    [i \in 1..Len(all_chunks) |->
        [all_chunks[i] EXCEPT !.has_embedding = TRUE,
                              !.embedding = EmbeddingOf(all_chunks[i].text, embedder)]]

\* where a run of the job ended, and what it left
IngestEnd(stage, raised, ix, cs, ifile, mfile) ==
    [stage |-> stage, raised |-> raised, index |-> ix, chunks |-> cs,
     index_file |-> ifile, metadata_file |-> mfile]

\* stages 4 and 5: create_index, add_chunks, then save
IndexAndSave(embedded, ifile, mfile) ==
    LET added == add_chunks(create_index(NoIndex), <<>>, embedded)
    IN  IF added.raised # OK
        THEN IngestEnd("index", OK, added.index, added.chunks, ifile, mfile)
        ELSE LET saved == save(added.index, added.chunks, ifile, mfile)
             IN  IngestEnd(IF saved.raised = OK THEN "done" ELSE "save", OK,
                           added.index, added.chunks,
                           saved.index_file, saved.metadata_file)

\* stages 2 and 3: chunking, then embedding
ChunkAndEmbed(documents, embedder, ifile, mfile) ==
    LET all_chunks == ChunkDocuments(documents)
    IN  IF all_chunks = <<>>
        THEN IngestEnd("chunk", OK, NoIndex, <<>>, ifile, mfile)
        ELSE IF embedder = "fails"
        THEN IngestEnd("embed", OK, NoIndex, <<>>, ifile, mfile)
        ELSE IndexAndSave(AttachEmbeddings(all_chunks, embedder), ifile, mfile)

ingest_documents(directory, embedder, ifile, mfile) ==
    LET loaded == load_directory(directory)
    IN  IF loaded.raised # OK
        THEN IngestEnd("load", loaded.raised, NoIndex, <<>>, ifile, mfile)
        ELSE IF loaded.documents = <<>>
        THEN IngestEnd("load", OK, NoIndex, <<>>, ifile, mfile)
        ELSE ChunkAndEmbed(loaded.documents, embedder, ifile, mfile)

\* the files a data directory may hold
DataFiles ==
    { DataFile("a.txt", TRUE, Rep("a", 3)),
      DataFile("b.txt", TRUE, Rep("b", 2)),
      DataFile("c.txt", TRUE, Rep(" ", 2)),
      DataFile("d.pdf", FALSE, <<>>) }

Directories ==
    {NoDirectory, Directory(<<>>)}
        \cup { Directory(<<f>>) : f \in DataFiles }
        \cup { Directory(<<fg[1], fg[2]>>) :
                   fg \in { p \in DataFiles \X DataFiles : p[1] # p[2] } }

Embedders == {"works", "fails", "wrong_dimension"}

(***************************************************************************)
(* RAGPipeline (app/services/rag_pipeline.py).  A query is identified with *)
(* the embedding embed_text returns for it; settings.max_context_length is *)
(* given with each call.                                                   *)
(***************************************************************************)
ERR_INSUFFICIENT_RESULTS == "InsufficientResultsError: Aucun resultat au-dessus du seuil"

MIN_USEFUL_REMAINING == 100

CONTEXT_SEPARATOR == <<"\n", "\n", "-", "-", "-", "\n", "\n">>
ELLIPSIS == <<".", ".", ".">>

\* sep.join(parts)
RECURSIVE Join(_, _)
Join(parts, sep) ==
    IF parts = <<>> THEN <<>>
    ELSE IF Len(parts) = 1 THEN parts[1]
    ELSE parts[1] \o sep \o Join(Tail(parts), sep)

\* the loop of _aggregate_context from result i on
RECURSIVE ContextParts(_, _, _, _, _)
ContextParts(results, i, chunks_text, total_length, max_length) ==
    IF i > Len(results) THEN chunks_text
    ELSE IF total_length + Len(results[i].chunk.text) > max_length
    THEN IF max_length - total_length > MIN_USEFUL_REMAINING
         THEN Append(chunks_text,
                     Slice(results[i].chunk.text, 0, max_length - total_length)
                         \o ELLIPSIS)
         ELSE chunks_text
    ELSE ContextParts(results, i + 1, Append(chunks_text, results[i].chunk.text),
                      total_length + Len(results[i].chunk.text), max_length)

\* a loop that goes on to the later results after the chunk that does not fit
RECURSIVE ContextParts_GoingOn(_, _, _, _, _)
ContextParts_GoingOn(results, i, chunks_text, total_length, max_length) ==
    IF i > Len(results) THEN chunks_text
    ELSE IF total_length + Len(results[i].chunk.text) > max_length
    THEN ContextParts_GoingOn(results, i + 1,
             IF max_length - total_length > MIN_USEFUL_REMAINING
             THEN Append(chunks_text,
                         Slice(results[i].chunk.text, 0, max_length - total_length)
                             \o ELLIPSIS)
             ELSE chunks_text,
             total_length, max_length)
    ELSE ContextParts_GoingOn(results, i + 1,
                              Append(chunks_text, results[i].chunk.text),
                              total_length + Len(results[i].chunk.text), max_length)

\* an aggregation that skips the chunk that does not fit and goes on
_aggregate_context_GoingOn(results, max_length) ==
    Join(ContextParts_GoingOn(results, 1, <<>>, 0, max_length), CONTEXT_SEPARATOR)

\* an aggregation that cuts the chunk that does not fit whatever room is left
_aggregate_context_AlwaysCut(results, max_length) ==
    Join([i \in 1..Min(Len(results), 2) |->
             IF i = 1 THEN results[1].chunk.text
             ELSE Slice(results[2].chunk.text, 0,
                        max_length - Len(results[1].chunk.text)) \o ELLIPSIS],
         CONTEXT_SEPARATOR)

_aggregate_context(results, max_length) ==
    Join(ContextParts(results, 1, <<>>, 0, max_length), CONTEXT_SEPARATOR)

\* the source of every result, repeated as often as it occurs
_extract_sources_Repeated(results) ==
    [i \in 1..Len(results) |-> results[i].chunk.source]

\* the sources of the results, each once, in the order first seen
RECURSIVE _extract_sources(_)
_extract_sources(results) ==
    IF results = <<>> THEN <<>>
    ELSE LET earlier == _extract_sources(SubSeq(results, 1, Len(results) - 1))
             source == results[Len(results)].chunk.source
         IN  IF \E i \in 1..Len(earlier) : earlier[i] = source
             THEN earlier
             ELSE Append(earlier, source)

\* the detail of the error: the raw min_score of the call
InsufficientDetail_Raw(min_score) == min_score.v

\* details={"min_score": min_score or settings.min_similarity_score}
InsufficientDetail(min_score) ==
    IF min_score.supplied /\ min_score.v # 0 THEN min_score.v ELSE min_similarity_score

NoResponse ==
    [context |-> <<>>, sources |-> <<>>, scores |-> <<>>, chunk_count |-> 0,
     metadata |-> [chunk_count |-> 0, total_chars |-> 0, avg_score |-> Frac(0, 1),
                   sources_count |-> 0]]

\* what process_query makes of the results of its search
Response(results, context, sources) ==
    [context |-> context,
     sources |-> sources,
     scores |-> [i \in 1..Len(results) |-> results[i].score],
     chunk_count |-> Len(results),
     metadata |-> [chunk_count |-> Len(results),
                   total_chars |-> Len(context),
                   avg_score |-> AvgScore(results),
                   sources_count |-> Cardinality({sources[i] : i \in 1..Len(sources)})]]

\* what a call of process_query comes to; trace lists the calls it made
PipelineEnd(raised, detail, response, trace) ==
    [raised |-> raised, min_score_detail |-> detail, response |-> response,
     trace |-> trace]

ProcessResults(out, min_score, max_length) ==
    IF out.raised # OK
    THEN PipelineEnd(out.raised, 0, NoResponse, <<"embed_text", "search">>)
    ELSE IF out.results = <<>>
    THEN PipelineEnd(ERR_INSUFFICIENT_RESULTS, InsufficientDetail(min_score),
                     NoResponse, <<"embed_text", "search">>)
    ELSE PipelineEnd(OK, 0,
             Response(out.results, _aggregate_context(out.results, max_length),
                      _extract_sources(out.results)),
             <<"embed_text", "search", "_aggregate_context", "_extract_sources">>)

process_query(ix, cs, q, k, min_score, max_length) ==
    ProcessResults(search(ix, cs, q, k, min_score), min_score, max_length)

\* a chunk as the ingestion job stores it, with its text
TextChunk(id, source, e, text) ==
    [id |-> id, source |-> source, has_embedding |-> TRUE, embedding |-> e,
     text |-> text]

\* the corpora an ingestion run may have persisted
Corpora ==
    { <<TextChunk("a.txt_chunk_0", "a.txt", Vec(4, 3), Rep("a", 30)),
        TextChunk("a.txt_chunk_1", "a.txt", Vec(3, 4), Rep("b", 30)),
        TextChunk("c.txt_chunk_0", "c.txt", Vec(1, 0), Rep("c", 30))>>,
      <<TextChunk("d.txt_chunk_0", "d.txt", Vec(4, 3), Rep("d", 30)),
        TextChunk("e.txt_chunk_0", "e.txt", Vec(3, 4), Rep("e", 130)),
        TextChunk("f.txt_chunk_0", "f.txt", Vec(1, 0), Rep("f", 5))>>,
      <<TextChunk("g.txt_chunk_0", "g.txt", Vec(1, 0), Rep("g", 60))>> }

\* the store an ingestion run builds from a corpus
StoreOf(corpus) == add_chunks(create_index(NoIndex), <<>>, corpus)

MaxContextLengths == {50, 60, 150}

\* the thresholds the callers of the pipeline pass
PipelineMinScores == {NoScore, Score(0), Score(90)}

(***************************************************************************)
(* The state machine.                                                      *)
(***************************************************************************)
\* the record of a call: what was called, with what, and what came out
NoCall ==
    [op |-> "__init__", raised |-> OK, input |-> <<>>, query |-> <<>>, k |-> 0,
     min_score |-> NoScore, results |-> <<>>, value |-> 0,
     queries |-> <<>>, report |-> NoReport,
     text |-> <<>>, source |-> "", chunk_size |-> NoSize, overlap |-> NoSize,
     chunk_objects |-> <<>>,
     directory |-> NoDirectory, embedder |-> "", stage |-> "",
     max_context_length |-> 0, min_score_detail |-> 0, response |-> NoResponse,
     trace |-> <<>>,
     expected |-> {}, found |-> {}, ratio |-> Frac(0, 1),
     settings |-> ChunkerService(chunk_size, chunk_overlap), pieces |-> <<>>]

Called(op, raised) == [NoCall EXCEPT !.op = op, !.raised = raised]

\* the artifacts an earlier ingestion run left at the configured paths
EarlierIndexFile == File(write_index([created |-> TRUE, rows |-> <<Row(Vec(6, 8))>>]))
EarlierMetadataFile ==
    File(pickle_dump(<<Chunk("b.txt_chunk_0", "b.txt", Vec(6, 8))>>))

\* no ingestion job has run, and no load() is under way
NoJob == [pc |-> "idle", run |-> 0]
NotLoading == [pc |-> "start"]

\* __init__; the artifacts may or may not exist when the process starts
Init ==
    /\ index = NoIndex
    /\ chunks = <<>>
    /\ index_file \in {NoFile, EarlierIndexFile}
    /\ metadata_file \in {NoFile, EarlierMetadataFile}
    /\ call = NoCall
    /\ ingest_job = NoJob
    /\ serving_load = NotLoading

CreateIndex ==
    /\ index' = create_index(index)
    /\ call' = Called("create_index", OK)
    /\ UNCHANGED <<chunks, index_file, metadata_file, ingest_job, serving_load>>

AddChunks(input) ==
    /\ Len(chunks) + Len(valid_chunks(input)) <= MaxChunks
    /\ LET out == add_chunks(index, chunks, input)
       IN  /\ index' = out.index
           /\ chunks' = out.chunks
           /\ call' = [Called("add_chunks", out.raised) EXCEPT !.input = input]
    /\ UNCHANGED <<index_file, metadata_file, ingest_job, serving_load>>

Search(q, k, min_score) ==
    /\ LET out == search(index, chunks, q, k, min_score)
       IN  call' = [Called("search", out.raised) EXCEPT
                       !.query = q, !.k = k, !.min_score = min_score,
                       !.results = out.results]
    /\ UNCHANGED <<index, chunks, index_file, metadata_file, ingest_job, serving_load>>

Save ==
    /\ LET out == save(index, chunks, index_file, metadata_file)
       IN  /\ index_file' = out.index_file
           /\ metadata_file' = out.metadata_file
           /\ call' = Called("save", out.raised)
    /\ UNCHANGED <<index, chunks, ingest_job, serving_load>>

Load ==
    /\ LET out == load(index, chunks, index_file, metadata_file)
       IN  /\ index' = out.index
           /\ chunks' = out.chunks
           /\ call' = Called("load", out.raised)
    /\ UNCHANGED <<index_file, metadata_file, ingest_job, serving_load>>

IsLoaded ==
    /\ call' = [Called("is_loaded", OK) EXCEPT
                   !.value = IF is_loaded(index, chunks) THEN 1 ELSE 0]
    /\ UNCHANGED <<index, chunks, index_file, metadata_file, ingest_job, serving_load>>

GetTotalChunks ==
    /\ call' = [Called("get_total_chunks", OK) EXCEPT !.value = get_total_chunks(chunks)]
    /\ UNCHANGED <<index, chunks, index_file, metadata_file, ingest_job, serving_load>>

Clear ==
    /\ index' = clear(index, chunks).index
    /\ chunks' = clear(index, chunks).chunks
    /\ call' = Called("clear", OK)
    /\ UNCHANGED <<index_file, metadata_file, ingest_job, serving_load>>

\* the life cycle of the store: building, persisting, restoring, resetting
Next ==
    \/ CreateIndex
    \/ \E input \in Batches : AddChunks(input)
    \/ Save
    \/ Load
    \/ IsLoaded
    \/ GetTotalChunks
    \/ Clear

Spec == Init /\ [][Next]_vars

\* a process that finds artifacts an interrupted save may have left: a file
\* opened for writing and never written is empty
InitInterruptedSave ==
    /\ index = NoIndex
    /\ chunks = <<>>
    /\ index_file \in {NoFile, EarlierIndexFile, File(<<>>)}
    /\ metadata_file \in {NoFile, EarlierMetadataFile, File(<<>>)}
    /\ call = NoCall
    /\ ingest_job = NoJob
    /\ serving_load = NotLoading

\* a store that is built, reset and restored from such artifacts
NextRestore ==
    \/ CreateIndex
    \/ \E input \in Batches : AddChunks(input)
    \/ Load
    \/ Clear

SpecRestore == InitInterruptedSave /\ [][NextRestore]_vars

\* a process that finds either both artifacts or none
InitPairedArtifacts ==
    /\ Init
    /\ index_file.exists <=> metadata_file.exists

\* searching and inspecting a store that is being built, restored and reset
NextSearch ==
    \/ CreateIndex
    \/ \E input \in Batches : AddChunks(input)
    \/ Load
    \/ Clear
    \/ IsLoaded
    \/ GetTotalChunks
    \/ \E q \in Queries, k \in 1..MaxK, min_score \in MinScores : Search(q, k, min_score)

SpecSearch == InitPairedArtifacts /\ [][NextSearch]_vars

\* a process that starts with no artifact at the configured paths
InitNoArtifacts ==
    /\ Init
    /\ ~index_file.exists
    /\ ~metadata_file.exists

EvaluateQueries(queries, k) ==
    /\ LET out == evaluate_queries(index, chunks, queries, k)
       IN  call' = [Called("evaluate_queries", out.raised) EXCEPT
                       !.queries = queries, !.k = k, !.report = out.report]
    /\ UNCHANGED <<index, chunks, index_file, metadata_file, ingest_job, serving_load>>

\* evaluating a store that is being built and reset
NextEval ==
    \/ CreateIndex
    \/ \E input \in Batches : AddChunks(input)
    \/ Clear
    \/ \E queries \in EvaluationRequests, k \in 1..MaxK : EvaluateQueries(queries, k)

SpecEval == InitNoArtifacts /\ [][NextEval]_vars

\* chunker.chunk_text(text, source, file_type, chunk_size, overlap)
CallChunkText(text, source, size, overlap) ==
    /\ LET out == chunk_text(text, source, "txt", size, overlap)
       IN  call' = [Called("chunk_text", out.raised) EXCEPT
                       !.text = text, !.source = source, !.chunk_size = size,
                       !.overlap = overlap, !.chunk_objects = out.chunks]
    /\ UNCHANGED <<index, chunks, index_file, metadata_file, ingest_job, serving_load>>

\* texts being chunked, with the sizes of the settings or sizes of the caller
NextChunker ==
    \E text \in Texts, size \in Sizes, overlap \in Sizes :
        CallChunkText(text, "a.txt", size, overlap)

SpecChunker == InitNoArtifacts /\ [][NextChunker]_vars

\* python -m scripts.ingest: one run of the job, from a store of its own
IngestDocuments(directory, embedder) ==
    /\ LET out == ingest_documents(directory, embedder, index_file, metadata_file)
       IN  /\ index' = out.index
           /\ chunks' = out.chunks
           /\ index_file' = out.index_file
           /\ metadata_file' = out.metadata_file
           /\ call' = [Called("ingest_documents", out.raised) EXCEPT
                           !.directory = directory, !.embedder = embedder,
                           !.stage = out.stage]
    /\ UNCHANGED <<ingest_job, serving_load>>

\* runs of the ingestion job, one after the other
NextIngest ==
    \E directory \in Directories, embedder \in Embedders :
        IngestDocuments(directory, embedder)

SpecIngest == Init /\ [][NextIngest]_vars

\* a serving process that finds the artifacts of one ingestion run
InitPipeline ==
    /\ index = NoIndex
    /\ chunks = <<>>
    /\ \E corpus \in Corpora :
           /\ index_file = File(write_index(StoreOf(corpus).index))
           /\ metadata_file = File(pickle_dump(StoreOf(corpus).chunks))
    /\ call = NoCall
    /\ ingest_job = NoJob
    /\ serving_load = NotLoading

\* POST /rag: pipeline.process_query(query, k, min_score)
ProcessQuery(q, k, min_score, max_length) ==
    /\ LET out == process_query(index, chunks, q, k, min_score, max_length)
       IN  call' = [Called("process_query", out.raised) EXCEPT
                       !.query = q, !.k = k, !.min_score = min_score,
                       !.max_context_length = max_length,
                       !.min_score_detail = out.min_score_detail,
                       !.response = out.response, !.trace = out.trace]
    /\ UNCHANGED <<index, chunks, index_file, metadata_file, ingest_job, serving_load>>

\* a serving process loading its artifacts and answering queries
NextPipeline ==
    \/ Load
    \/ \E q \in Queries, k \in 1..(MaxK + 1), min_score \in PipelineMinScores,
          max_length \in MaxContextLengths :
           ProcessQuery(q, k, min_score, max_length)

SpecPipeline == InitPipeline /\ [][NextPipeline]_vars

\* a corpus with chunks that point away from one another
OpposedCorpus ==
    <<TextChunk("h.txt_chunk_0", "h.txt", Vec(1, 0), Rep("h", 30)),
      TextChunk("h.txt_chunk_1", "h.txt", Vec(-3, 4), Rep("i", 30)),
      TextChunk("h.txt_chunk_2", "h.txt", Vec(-1, 0), Rep("j", 30))>>

\* a process that starts with the artifacts of a persisted corpus
InitCorpus ==
    /\ index = NoIndex
    /\ chunks = <<>>
    /\ \E corpus \in Corpora \cup {OpposedCorpus} :
           /\ index_file = File(write_index(StoreOf(corpus).index))
           /\ metadata_file = File(pickle_dump(StoreOf(corpus).chunks))
    /\ call = NoCall
    /\ ingest_job = NoJob
    /\ serving_load = NotLoading

\* a process loading its artifacts and searching them
NextCorpusSearch ==
    \/ Load
    \/ \E q \in Queries, k \in 1..MaxK, min_score \in MinScores : Search(q, k, min_score)

SpecCorpusSearch == InitCorpus /\ [][NextCorpusSearch]_vars

\* evaluation._calculate_recall(expected, found)
CalculateRecall(expected, found) ==
    /\ call' = [Called("_calculate_recall", OK) EXCEPT
                   !.expected = expected, !.found = found,
                   !.ratio = _calculate_recall(expected, found)]
    /\ UNCHANGED <<index, chunks, index_file, metadata_file, ingest_job, serving_load>>

\* evaluation._calculate_precision(expected, found)
CalculatePrecision(expected, found) ==
    /\ call' = [Called("_calculate_precision", OK) EXCEPT
                   !.expected = expected, !.found = found,
                   !.ratio = _calculate_precision(expected, found)]
    /\ UNCHANGED <<index, chunks, index_file, metadata_file, ingest_job, serving_load>>

\* the two metrics applied to sets of sources
NextMetrics ==
    \/ \E expected \in SUBSET SourceNames, found \in SUBSET SourceNames :
           CalculateRecall(expected, found)
    \/ \E expected \in SUBSET SourceNames, found \in SUBSET SourceNames :
           CalculatePrecision(expected, found)

SpecMetrics == InitNoArtifacts /\ [][NextMetrics]_vars

\* chunk_text(text, source, file_type) on a service built from given settings
ChunkTextConfigured(text, configured_size, configured_overlap) ==
    /\ LET self == ChunkerService(configured_size, configured_overlap)
           out == chunk_text_of(self, text, "a.txt", "txt", NoSize, NoSize)
       IN  call' = [Called("chunk_text", out.raised) EXCEPT
                       !.text = text, !.source = "a.txt", !.settings = self,
                       !.chunk_objects = out.chunks,
                       !.pieces = IF out.raised = OK
                                  THEN PiecesOf(self, text, NoSize, NoSize)
                                  ELSE <<>>]
    /\ UNCHANGED <<index, chunks, index_file, metadata_file, ingest_job, serving_load>>

\* texts chunked with the sizes of the settings
NextChunkerSettings ==
    \E text \in Texts, configured_size \in ConfiguredSizes,
       configured_overlap \in ConfiguredOverlaps :
        ChunkTextConfigured(text, configured_size, configured_overlap)

SpecChunkerSettings == InitNoArtifacts /\ [][NextChunkerSettings]_vars

(***************************************************************************)
(* An ingestion job saving while the serving process loads.  The two are   *)
(* separate processes that share the two artifact paths only; each file    *)
(* operation of save() and load() is a step of its own.  index and chunks  *)
(* are the store of the serving process.                                   *)
(***************************************************************************)
\* the chunks ingestion run r indexes; run 0 left the earlier artifacts
JobCorpus(r) ==
    IF r = 0 THEN <<Chunk("b.txt_chunk_0", "b.txt", Vec(6, 8))>>
    ELSE [i \in 1..r |-> IF i % 2 = 1 THEN Chunk("a.txt_chunk_0", "a.txt", Vec(1, 0))
                                     ELSE Chunk("b.txt_chunk_0", "b.txt", Vec(6, 8))]

\* the store of the job after create_index() and add_chunks(all_chunks)
JobStore(r) == add_chunks(create_index(NoIndex), <<>>, JobCorpus(r))

\* the job has chunked, embedded and indexed its documents and enters save()
JobBuild ==
    /\ ingest_job.pc = "idle"
    /\ ingest_job.run < MaxRuns
    /\ ingest_job' = [pc |-> "save", run |-> ingest_job.run + 1]
    /\ UNCHANGED <<index, chunks, index_file, metadata_file, call, serving_load>>

\* faiss.write_index opens the index artifact for writing: it is now empty
SaveOpenIndex ==
    /\ ingest_job.pc = "save"
    /\ JobStore(ingest_job.run).index.created
    /\ index_file' = File(<<>>)
    /\ ingest_job' = [ingest_job EXCEPT !.pc = "index_opened"]
    /\ UNCHANGED <<index, chunks, metadata_file, call, serving_load>>

\* faiss.write_index has written the index and closed the file
SaveWriteIndex ==
    /\ ingest_job.pc = "index_opened"
    /\ index_file' = File(write_index(JobStore(ingest_job.run).index))
    /\ ingest_job' = [ingest_job EXCEPT !.pc = "index_written"]
    /\ UNCHANGED <<index, chunks, metadata_file, call, serving_load>>

\* open(metadata_path, "wb"): the chunk artifact is now empty
SaveOpenMetadata ==
    /\ ingest_job.pc = "index_written"
    /\ metadata_file' = File(<<>>)
    /\ ingest_job' = [ingest_job EXCEPT !.pc = "metadata_opened"]
    /\ UNCHANGED <<index, chunks, index_file, call, serving_load>>

\* pickle.dump has written the chunk list and the file is closed: save returns
SaveDumpMetadata ==
    /\ ingest_job.pc = "metadata_opened"
    /\ metadata_file' = File(pickle_dump(JobStore(ingest_job.run).chunks))
    /\ ingest_job' = [ingest_job EXCEPT !.pc = "idle"]
    /\ UNCHANGED <<index, chunks, index_file, call, serving_load>>

\* load(): self._index_path.exists()
LoadCheckIndex ==
    /\ serving_load.pc = "start"
    /\ IF index_file.exists
       THEN /\ serving_load' = [pc |-> "check_metadata"]
            /\ UNCHANGED call
       ELSE /\ serving_load' = [pc |-> "failed"]
            /\ call' = Called("load", ERR_INDEX_NOT_FOUND)
    /\ UNCHANGED <<index, chunks, index_file, metadata_file, ingest_job>>

\* load(): self._metadata_path.exists()
LoadCheckMetadata ==
    /\ serving_load.pc = "check_metadata"
    /\ IF metadata_file.exists
       THEN /\ serving_load' = [pc |-> "read_index"]
            /\ UNCHANGED call
       ELSE /\ serving_load' = [pc |-> "failed"]
            /\ call' = Called("load", ERR_METADATA_NOT_FOUND)
    /\ UNCHANGED <<index, chunks, index_file, metadata_file, ingest_job>>

\* load(): self._index = faiss.read_index(...)
LoadReadIndex ==
    /\ serving_load.pc = "read_index"
    /\ IF index_file.exists /\ IndexReadable(index_file.data)
       THEN /\ index' = read_index(index_file.data)
            /\ serving_load' = [pc |-> "read_metadata"]
            /\ UNCHANGED call
       ELSE /\ serving_load' = [pc |-> "failed"]
            /\ call' = Called("load", ERR_LOAD_FAILED)
            /\ UNCHANGED index
    /\ UNCHANGED <<chunks, index_file, metadata_file, ingest_job>>

\* load(): self._chunks = pickle.load(f), after which load returns
LoadReadMetadata ==
    /\ serving_load.pc = "read_metadata"
    /\ IF metadata_file.exists /\ ~Unpicklable(metadata_file.data)
       THEN /\ chunks' = pickle_load(metadata_file.data)
            /\ serving_load' = [pc |-> "done"]
            /\ call' = Called("load", OK)
       ELSE /\ serving_load' = [pc |-> "failed"]
            /\ call' = Called("load", ERR_LOAD_FAILED)
            /\ UNCHANGED chunks
    /\ UNCHANGED <<index, index_file, metadata_file, ingest_job>>

\* the serving process is started again: a new instance, about to load
ServingRestart ==
    /\ serving_load.pc \in {"done", "failed"}
    /\ index' = NoIndex
    /\ chunks' = <<>>
    /\ call' = NoCall
    /\ serving_load' = NotLoading
    /\ UNCHANGED <<index_file, metadata_file, ingest_job>>

NextConcurrent ==
    \/ JobBuild
    \/ SaveOpenIndex
    \/ SaveWriteIndex
    \/ SaveOpenMetadata
    \/ SaveDumpMetadata
    \/ LoadCheckIndex
    \/ LoadCheckMetadata
    \/ LoadReadIndex
    \/ LoadReadMetadata
    \/ ServingRestart

SpecConcurrent == InitPairedArtifacts /\ [][NextConcurrent]_vars

(***************************************************************************)
(* The serving process (app/main.py and app/api/endpoints).  lifespan       *)
(* tries one load() and goes on whatever comes of it; from then on the      *)
(* event loop runs the request handlers.  An async handler gives the loop   *)
(* back while it awaits embed_text, so other handlers run between its       *)
(* arrival and its search; serving_load.awaiting holds the requests that    *)
(* wait for their embedding.                                                *)
(***************************************************************************)
MaxRequests == 2

\* the handlers that await embed_text, and the embeddings it returns
AsyncHandlers == {"embed_text", "search_vectors", "rag_query", "evaluate_rag"}
ServedQueries == { Vec(1, 0), Vec(4, 3) }

Request(handler, q) == [handler |-> handler, query |-> q]

\* the process starts with the artifacts of a persisted corpus, whole,
\* missing, or left empty by an interrupted save
InitServing ==
    /\ index = NoIndex
    /\ chunks = <<>>
    /\ \E corpus \in Corpora :
           /\ index_file \in {NoFile, File(<<>>),
                               File(write_index(StoreOf(corpus).index))}
           /\ metadata_file \in {NoFile, File(<<>>),
                                  File(pickle_dump(StoreOf(corpus).chunks))}
    /\ call = NoCall
    /\ ingest_job = NoJob
    /\ serving_load = [pc |-> "start", awaiting |-> {}]

\* lifespan: vectorstore.load() in a try block; the error is logged
lifespan ==
    /\ serving_load.pc = "start"
    /\ LET out == load(index, chunks, index_file, metadata_file)
       IN  /\ index' = out.index
           /\ chunks' = out.chunks
           /\ call' = Called("load", out.raised)
    /\ serving_load' = [pc |-> "serving", awaiting |-> {}]
    /\ UNCHANGED <<index_file, metadata_file, ingest_job>>

\* GET /health: is_loaded() and get_total_chunks(), without an await
health_check ==
    /\ serving_load.pc = "serving"
    /\ call' = [Called("health_check", OK) EXCEPT
                   !.value = get_total_chunks(chunks),
                   !.stage = IF is_loaded(index, chunks) THEN "loaded" ELSE "not loaded"]
    /\ UNCHANGED <<index, chunks, index_file, metadata_file, ingest_job, serving_load>>

\* a request reaches its handler, which awaits embed_text
Await(handler, q) ==
    /\ serving_load.pc = "serving"
    /\ Cardinality(serving_load.awaiting) < MaxRequests
    /\ Request(handler, q) \notin serving_load.awaiting
    /\ serving_load' = [serving_load EXCEPT !.awaiting = @ \cup {Request(handler, q)}]
    /\ UNCHANGED <<index, chunks, index_file, metadata_file, call, ingest_job>>

\* the handler of request r goes on from its await
Resumes(r) ==
    /\ serving_load.pc = "serving"
    /\ r \in serving_load.awaiting
    /\ serving_load' = [serving_load EXCEPT !.awaiting = @ \ {r}]
    /\ UNCHANGED <<index, chunks, index_file, metadata_file, ingest_job>>

\* POST /embed: the embedding is the response
embed_text(r) ==
    /\ r.handler = "embed_text"
    /\ Resumes(r)
    /\ call' = [Called("embed_text", OK) EXCEPT !.query = r.query]

\* POST /search: vectorstore.search(query_embedding, k, min_score)
search_vectors(r, k, min_score) ==
    /\ r.handler = "search_vectors"
    /\ Resumes(r)
    /\ LET out == search(index, chunks, r.query, k, min_score)
       IN  call' = [Called("search_vectors", out.raised) EXCEPT
                       !.query = r.query, !.k = k, !.min_score = min_score,
                       !.results = out.results]

\* POST /rag: pipeline.process_query(query, k, min_score)
rag_query(r, k, min_score) ==
    /\ r.handler = "rag_query"
    /\ Resumes(r)
    /\ LET out == process_query(index, chunks, r.query, k, min_score,
                                MIN_USEFUL_REMAINING + chunk_size)
       IN  call' = [Called("rag_query", out.raised) EXCEPT
                       !.query = r.query, !.k = k, !.min_score = min_score,
                       !.response = out.response, !.trace = out.trace]

\* POST /evaluate with one labelled query
evaluate_rag(r, k) ==
    /\ r.handler = "evaluate_rag"
    /\ Resumes(r)
    /\ LET queries == <<[query |-> r.query, expected_sources |-> {"a.txt", "z.txt"}]>>
           out == evaluate_queries(index, chunks, queries, k)
       IN  call' = [Called("evaluate_rag", out.raised) EXCEPT
                       !.queries = queries, !.k = k, !.report = out.report]

NextServing ==
    \/ lifespan
    \/ health_check
    \/ \E handler \in AsyncHandlers, q \in ServedQueries : Await(handler, q)
    \/ \E r \in serving_load.awaiting : embed_text(r)
    \/ \E r \in serving_load.awaiting : search_vectors(r, MaxK, NoScore)
    \/ \E r \in serving_load.awaiting : rag_query(r, MaxK, NoScore)
    \/ \E r \in serving_load.awaiting : evaluate_rag(r, MaxK)

SpecServing == InitServing /\ [][NextServing]_vars

(***************************************************************************)
(* Properties of the store (VectorStoreService).                           *)
(***************************************************************************)

\* C1: after every operation that returned, the chunk list is as long as
\* the index has rows - also after create_index on a store that holds chunks.
C1_ChunksMatchIndexRows ==
    call.raised = OK => Len(chunks) = ntotal(index)

\* C2: add_chunks is all-or-nothing: a call that raises leaves the index and
\* the chunk list as they were, also on a store whose index was never created.
C2_FailedAddChangesNothing ==
    [][ (call'.op = "add_chunks" /\ call'.raised # OK)
            => (index' = index /\ chunks' = chunks) ]_vars

\* C3: a successful add_chunks on a store of n chunks appends the m embedded
\* input chunks, in input order, to the chunk list (so the total grows by m
\* and no chunk without embedding is stored), and row n+i of the index is
\* the (normalised) embedding of chunk n+i, for every i < m.
C3_AddAppendsAligned ==
    [][ (call'.op = "add_chunks" /\ call'.raised = OK)
            => LET valid == valid_chunks(call'.input)
                   n == Len(chunks)
                   m == Len(valid)
               IN  /\ chunks' = chunks \o valid
                   /\ get_total_chunks(chunks') = get_total_chunks(chunks) + m
                   /\ \A i \in 1..Len(chunks') : chunks'[i].has_embedding
                   /\ \A i \in 1..m :
                          /\ n + i <= ntotal(index')
                          /\ index'.rows[n + i] = Row(chunks'[n + i].embedding) ]_vars

\* C4: a search that returns has at most k results, and each of them scores
\* at least the min_score the caller gave.
C4_SearchBounded ==
    (call.op = "search" /\ call.raised = OK)
        => /\ Len(call.results) <= call.k
           /\ call.min_score.supplied
                  => \A i \in 1..Len(call.results) :
                         call.results[i].score >= call.min_score.v

\* C4 witness: a search with a supplied threshold returned exactly k results
\* out of a larger store, all rows of which passed the threshold.
C4_Witness ==
    /\ call.op = "search" /\ call.raised = OK
    /\ call.min_score.supplied /\ call.min_score.v > 0
    /\ Len(call.results) = call.k
    /\ Len(Kept(SearchCandidates(index, chunks, call.query, call.k),
                call.min_score.v)) > call.k

\* the results of a search that discards exactly the candidates scoring
\* below threshold
ResultsAtThreshold(ix, cs, q, k, threshold) ==
    TopK(CollectResults(Kept(SearchCandidates(ix, cs, q, k), threshold), cs), k)

\* C5: whenever the caller supplies min_score, 0 included, search discards
\* exactly the candidates scoring below that value.
C5_CallerThresholdUsed ==
    (call.op = "search" /\ call.raised = OK /\ call.min_score.supplied)
        => call.results =
               ResultsAtThreshold(index, chunks, call.query, call.k, call.min_score.v)

\* C6: the evaluator's search is unfiltered (threshold 0): every query of an
\* evaluation retrieves the first k candidates the index yields, whatever
\* the default similarity threshold.
C6_EvaluationUnfiltered ==
    (call.op = "evaluate_queries" /\ call.raised = OK)
        => \A i \in 1..Len(call.queries) :
               LET expected == ResultsAtThreshold(index, chunks,
                                   call.queries[i].query, call.k, 0)
               IN  /\ call.report.details[i].retrieved_count = Len(expected)
                   /\ call.report.details[i].found_sources = FoundSources(expected)

\* C7: the results of a search that returns are in non-increasing score order.
C7_ResultsDescending ==
    (call.op = "search" /\ call.raised = OK)
        => \A i \in 1..(Len(call.results) - 1) :
               call.results[i].score >= call.results[i + 1].score

\* C7 witness: a search returned two results of different scores.
C7_Witness ==
    /\ call.op = "search" /\ call.raised = OK
    /\ Len(call.results) >= 2
    /\ call.results[1].score > call.results[2].score

C9_SaveOfEmptyStoreFails ==
    [][ (call'.op = "save" /\ Len(chunks) = 0)
            => /\ call'.raised # OK
               /\ index_file' = index_file
               /\ metadata_file' = metadata_file ]_vars

\* C10: load raises VectorStoreError whenever an artifact is missing: the
\* index artifact, the chunk artifact, or both.
C10_LoadFailsOnMissingArtifact ==
    call.op = "load"
        => /\ ~index_file.exists => call.raised = ERR_INDEX_NOT_FOUND
           /\ (index_file.exists /\ ~metadata_file.exists)
                  => call.raised = ERR_METADATA_NOT_FOUND

\* C10 witness: load raised with the index artifact in place and the chunk
\* artifact missing.
C10_Witness ==
    /\ call.op = "load" /\ call.raised = ERR_METADATA_NOT_FOUND
    /\ index_file.exists /\ ~metadata_file.exists

FromOneSave(ix, cs) ==
    \E r \in 0..ingest_job.run :
        /\ ix = read_index(write_index(JobStore(r).index))
        /\ cs = JobStore(r).chunks

\* C12: whatever the interleaving of an ingestion job's save() with the
\* serving process's load(), a load that returned has read an index artifact
\* and a chunk artifact written by one and the same save.
C12_LoadReadsOneSave ==
    serving_load.pc = "done" => FromOneSave(index, chunks)

\* some stage of the job failed for a document or for the batch
BatchFailed(directory, embedder) ==
    \/ load_directory(directory).raised # OK
    \/ \E i \in 1..Len(load_directory(directory).documents) :
           chunk_text(load_directory(directory).documents[i].content,
                      load_directory(directory).documents[i].name, "txt",
                      NoSize, NoSize).raised # OK
    \/ embedder # "works"

\* C13: a run of the ingestion job in which the directory cannot be read,
\* the chunking of a loaded document fails, embedding fails or index
\* building fails never reaches save() and leaves both artifacts as they were.
C13_FailedBatchKeepsArtifacts ==
    [][ (call'.op = "ingest_documents"
            /\ BatchFailed(call'.directory, call'.embedder))
            => /\ call'.stage \notin {"save", "done"}
               /\ index_file' = index_file
               /\ metadata_file' = metadata_file ]_vars

(***************************************************************************)
(* Properties of the chunker (ChunkerService).                             *)
(***************************************************************************)

\* C14: chunk_text raises ChunkingError and returns no chunk for every pair
\* of sizes the caller supplies with overlap >= chunk_size, a pair holding a
\* 0 included.
C14_OverlapNotBelowSizeFails ==
    (call.op = "chunk_text" /\ call.chunk_size.supplied /\ call.overlap.supplied
        /\ call.overlap.v >= call.chunk_size.v)
        => /\ call.raised \in {ERR_EMPTY_TEXT, ERR_OVERLAP, ERR_CHUNKING_FAILED}
           /\ call.chunk_objects = <<>>

\* the sizes a call of chunk_text works with, in characters
CharBudget(c) == EffectiveSize(c.chunk_size, chunk_size) * CHARS_PER_TOKEN
CharOverlap(c) == EffectiveSize(c.overlap, chunk_overlap) * CHARS_PER_TOKEN

\* C15: a text that is not blank and shorter than the chunk size, chunked
\* with an overlap below the chunk size, gives exactly one chunk: the trimmed
\* text, with chunk_index 0 and total_chunks 1.
C15_ShortTextIsOneChunk ==
    (call.op = "chunk_text" /\ strip(call.text) # <<>>
        /\ CharOverlap(call) < CharBudget(call)
        /\ Len(call.text) < CharBudget(call))
        => /\ call.raised = OK
           /\ Len(call.chunk_objects) = 1
           /\ call.chunk_objects[1].text = strip(call.text)
           /\ call.chunk_objects[1].chunk_index = 0
           /\ call.chunk_objects[1].total_chunks = 1

\* C15 witness: a short text with blanks around it was chunked with sizes
\* of the caller.
C15_Witness ==
    /\ call.op = "chunk_text" /\ call.raised = OK
    /\ call.chunk_size.supplied /\ call.overlap.supplied
    /\ Len(call.text) < CharBudget(call)
    /\ strip(call.text) # call.text
    /\ Len(call.chunk_objects) = 1

\* C16: the n chunks chunk_text returns carry chunk_index 0, 1, ..., n-1 in
\* output order, all carry total_chunks = n, the id of each is
\* "{source}_chunk_{chunk_index}", and no two ids are equal.
C16_ChunkNumbering ==
    (call.op = "chunk_text" /\ call.raised = OK)
        => LET cs == call.chunk_objects
           IN  /\ \A i \in 1..Len(cs) :
                      /\ cs[i].chunk_index = i - 1
                      /\ cs[i].total_chunks = Len(cs)
                      /\ cs[i].id = call.source \o "_chunk_" \o ToString(cs[i].chunk_index)
               /\ \A i, j \in 1..Len(cs) : i # j => cs[i].id # cs[j].id

\* C16 witness: chunk_text returned three chunks or more.
C16_Witness ==
    /\ call.op = "chunk_text" /\ call.raised = OK
    /\ Len(call.chunk_objects) >= 3

\* C17: no chunk chunk_text returns is longer than chunk_size * 4
\* characters, also a chunk made of an overlap seed and a new paragraph, and
\* also when a paragraph longer than the budget meets a non-empty buffer.
C17_ChunkWithinBudget ==
    (call.op = "chunk_text" /\ call.raised = OK)
        => \A i \in 1..Len(call.chunk_objects) :
               Len(call.chunk_objects[i].text) <= CharBudget(call)

(***************************************************************************)
(* Properties of the pipeline (RAGPipeline).                               *)
(***************************************************************************)

\* C18: process_query raises InsufficientResultsError exactly when its
\* search returns no result; the min_score detail of the error is the
\* threshold that search applied; and the call ends there, having made one
\* embed_text and one search.
C18_InsufficientIffNoResult ==
    call.op = "process_query"
        => LET out == search(index, chunks, call.query, call.k, call.min_score)
           IN  /\ (call.raised = ERR_INSUFFICIENT_RESULTS)
                      <=> (out.raised = OK /\ out.results = <<>>)
               /\ call.raised = ERR_INSUFFICIENT_RESULTS
                      => /\ call.min_score_detail = EffectiveMinScore(call.min_score)
                         /\ call.trace = <<"embed_text", "search">>

\* C18 witness: a query given min_score 0 on a loaded store found nothing.
C18_Witness ==
    /\ call.op = "process_query" /\ call.raised = ERR_INSUFFICIENT_RESULTS
    /\ is_loaded(index, chunks)
    /\ call.min_score = Score(0)

\* C19: the context process_query returns, delimiters and ellipsis marker
\* included, has at most max_context_length characters, and total_chars
\* reports its length.
C19_ContextWithinBudget ==
    (call.op = "process_query" /\ call.raised = OK)
        => /\ call.response.metadata.total_chars = Len(call.response.context)
           /\ Len(call.response.context) <= call.max_context_length

\* max_context_length is 50 and the search returned three chunks of 30
\* characters each
ThreeChunksOfThirty ==
    /\ call.op = "process_query" /\ call.raised = OK
    /\ call.max_context_length = 50
    /\ Len(call.response.scores) = 3
    /\ \A i \in 1..Len(chunks) : Len(chunks[i].text) = 30

\* C20 as stated: with max_context_length 50 and three returned chunks of
\* 30 characters, the context is the first chunk, then a fragment of at
\* most 20 characters of the second followed by the ellipsis marker, and
\* chunk_count is 3.
C20_SecondChunkTruncated ==
    ThreeChunksOfThirty
        => LET r == search(index, chunks, call.query, call.k, call.min_score).results
           IN  /\ \E n \in 0..20 :
                      call.response.context =
                          r[1].chunk.text \o CONTEXT_SEPARATOR
                              \o Slice(r[2].chunk.text, 0, n) \o ELLIPSIS
               /\ call.response.chunk_count = 3
               /\ call.response.metadata.chunk_count = 3

\* C20 amended: with max_context_length 50 and three returned chunks of 30
\* characters, the context is the first chunk alone (the 20 characters left
\* do not exceed the 100 needed for a fragment), and chunk_count is 3 in the
\* response and in its metadata.
C20_FirstChunkOnly ==
    ThreeChunksOfThirty
        => LET r == search(index, chunks, call.query, call.k, call.min_score).results
           IN  /\ call.response.context = r[1].chunk.text
               /\ call.response.chunk_count = 3
               /\ call.response.metadata.chunk_count = 3

\* C20 witness: the scenario happened.
C20_Witness ==
    /\ ThreeChunksOfThirty
    /\ call.k = 3

\* the place of the first result that comes from source
FirstResultOf(results, source) ==
    CHOOSE i \in 1..Len(results) :
        /\ results[i].chunk.source = source
        /\ \A j \in 1..(i - 1) : results[j].chunk.source # source

\* C21: the sources process_query returns are the sources of all the
\* results of its search, those left out of the context included, each
\* exactly once and in the order of first occurrence among the results;
\* metadata.sources_count is the length of that list.
C21_SourcesOnceInOrder ==
    (call.op = "process_query" /\ call.raised = OK)
        => LET r == search(index, chunks, call.query, call.k, call.min_score).results
               sources == call.response.sources
           IN  /\ {sources[i] : i \in 1..Len(sources)}
                      = {r[i].chunk.source : i \in 1..Len(r)}
               /\ \A i, j \in 1..Len(sources) : i # j => sources[i] # sources[j]
               /\ \A i, j \in 1..Len(sources) :
                      i < j => FirstResultOf(r, sources[i]) < FirstResultOf(r, sources[j])
               /\ call.response.metadata.sources_count = Len(sources)

\* C21 witness: three results of two sources, only the first of which is in
\* the context; the source of the last one is listed all the same.
C21_Witness ==
    /\ call.op = "process_query" /\ call.raised = OK
    /\ Len(call.response.scores) = 3
    /\ call.response.sources = <<"a.txt", "c.txt">>
    /\ call.response.context = Rep("a", 30)

\* the length of the texts of the first n results
LengthOfFirst(results, n) ==
    SumSeq([i \in 1..n |-> Len(results[i].chunk.text)])

\* how many results from the first on fit the budget whole
FittingResults(results, max_length) ==
    CHOOSE n \in 0..Len(results) :
        /\ LengthOfFirst(results, n) <= max_length
        /\ n < Len(results) => LengthOfFirst(results, n + 1) > max_length

\* C25: the context is the texts of the results in returned order up to the
\* first one that does not fit what is left of the budget, unmodified; that
\* one is included cut to what is left and followed by the ellipsis marker
\* only if more than 100 characters are left, and is omitted otherwise; no
\* later result is included, even one that would fit.
C25_AggregationStopsAtFirstUnfit ==
    (call.op = "process_query" /\ call.raised = OK)
        => LET r == search(index, chunks, call.query, call.k, call.min_score).results
               n == FittingResults(r, call.max_context_length)
               left == call.max_context_length - LengthOfFirst(r, n)
               whole == [i \in 1..n |-> r[i].chunk.text]
           IN  call.response.context
                   = Join(IF n < Len(r) /\ left > 100
                          THEN Append(whole, SubSeq(r[n + 1].chunk.text, 1, left)
                                                 \o <<".", ".", ".">>)
                          ELSE whole,
                          CONTEXT_SEPARATOR)

\* C25 witness: three results; the first fits, the second is cut to the 120
\* characters left, and the third, of 5 characters, is left out.
C25_Witness ==
    /\ call.op = "process_query" /\ call.raised = OK
    /\ call.max_context_length = 150
    /\ Len(call.response.scores) = 3
    /\ call.response.context
           = Rep("d", 30) \o CONTEXT_SEPARATOR \o Rep("e", 120) \o <<".", ".", ".">>

\* every row of the index ranked by descending score and restricted to the
\* threshold, then cut to k
WholeCorpusTopK(ix, q, k, threshold) ==
    TopK(Kept(IndexFlatIP_search(ix, Row(q), ntotal(ix)), threshold), k)

\* C26: asking the index for min(2k, corpus size) candidates never changes
\* the answer: for every corpus, query, k and threshold, search returns the
\* first k chunks of the whole corpus ranked by descending score and
\* restricted to the threshold (whenever these can be returned as results),
\* and returns fewer than k only when fewer than k chunks of the whole
\* corpus reach the threshold.
C26_HeadroomNeverChangesAnswer ==
    (call.op = "search" /\ call.raised # ERR_EMPTY_INDEX)
        => LET t == EffectiveMinScore(call.min_score)
               best == WholeCorpusTopK(index, call.query, call.k, t)
           IN  (\A i \in 1..Len(best) : Constructible(best[i], chunks))
                   => /\ call.raised = OK
                      /\ call.results = CollectResults(best, chunks)
                      /\ Len(call.results) < call.k
                             => Len(Kept(IndexFlatIP_search(index, Row(call.query),
                                                            ntotal(index)), t)) < call.k

\* C28: a load that raises VectorStoreError, because an artifact is missing
\* or because reading either artifact fails, leaves the index and the chunk
\* list of the store exactly as they were before the call.
C28_FailedLoadChangesNothing ==
    [][ (call'.op = "load" /\ call'.raised # OK)
            => (index' = index /\ chunks' = chunks) ]_vars

\* C29: once the startup load attempt is over, no request handler changes
\* the store: under every interleaving of the requests the index and the
\* chunk list stay what startup left, and the chunk list is as long as the
\* index has vectors.
C29_ServingNeverMutatesStore ==
    [][ serving_load.pc = "serving"
            => /\ index' = index
               /\ chunks' = chunks
               /\ Len(chunks) = ntotal(index) ]_vars

(***************************************************************************)
(* Properties of the chunker under the sizes of the settings.              *)
(***************************************************************************)
\* the budget and the overlap of a call under its settings, in characters
SettingsBudget(c) == c.settings.chunk_size * CHARS_PER_TOKEN
SettingsOverlap(c) == c.settings.overlap * CHARS_PER_TOKEN

\* the non-blank paragraphs of a text, trimmed
TrimmedParagraphs(text) ==
    SelectSeq([i \in 1..Len(split(text, SEPARATOR_TOKEN)) |->
                  strip(split(text, SEPARATOR_TOKEN)[i])],
              LAMBDA para : para # <<>>)

\* the last n characters of s, none of them for n = 0
Last(s, n) ==
    IF n >= Len(s) THEN s ELSE SubSeq(s, Len(s) - n + 1, Len(s))

\* C23: when the buffer is emitted because the next paragraph does not fit,
\* the next buffer is the last overlap characters of the emitted one, the
\* blank-line separator and the new paragraph, for every overlap from 0 to
\* below chunk_size: with overlap 0 nothing of the emitted buffer is carried
\* over.  (Texts whose paragraphs all fit the budget: every piece but the
\* last was emitted for that reason, and the next piece starts with the
\* next buffer.)
C23_NextBufferSeededByOverlap ==
    (call.op = "chunk_text" /\ call.raised = OK
        /\ \A i \in 1..Len(TrimmedParagraphs(call.text)) :
               Len(TrimmedParagraphs(call.text)[i]) <= SettingsBudget(call))
        => \A i \in 1..(Len(call.pieces) - 1) :
               \E j \in 1..Len(TrimmedParagraphs(call.text)) :
                   StartsWith(call.pieces[i + 1],
                       Last(call.pieces[i], SettingsOverlap(call))
                           \o SEPARATOR_TOKEN
                           \o TrimmedParagraphs(call.text)[j])

\* the call chunked one paragraph longer than the budget: it was hard-split
HardSplitCall(c) ==
    /\ c.op = "chunk_text" /\ c.raised = OK
    /\ TrimmedParagraphs(c.text) = <<c.text>>
    /\ Len(c.text) > SettingsBudget(c)

\* where slice n of a hard-split paragraph starts and ends (end excluded)
SliceStart(c, n) == (n - 1) * (SettingsBudget(c) - SettingsOverlap(c))
SliceEnd(c, n) == SliceStart(c, n) + Len(c.pieces[n])

\* C24: the slices of a hard-split paragraph start at 0, s, 2s, ... with
\* s = chunk_size - overlap, have at most chunk_size characters, cover the
\* paragraph, and every two consecutive slices, the last pair included,
\* share exactly overlap characters, the tail of one being the head of the
\* next.
C24_HardSplitSlices ==
    HardSplitCall(call)
        => /\ \A n \in 1..Len(call.pieces) :
                /\ Len(call.pieces[n]) <= SettingsBudget(call)
                /\ call.pieces[n] = Slice(call.text, SliceStart(call, n), SliceEnd(call, n))
           /\ SliceEnd(call, Len(call.pieces)) = Len(call.text)
           /\ \A n \in 1..(Len(call.pieces) - 1) :
                /\ SliceEnd(call, n) - SliceStart(call, n + 1) = SettingsOverlap(call)
                /\ Len(call.pieces[n + 1]) >= SettingsOverlap(call)
                /\ Last(call.pieces[n], SettingsOverlap(call))
                       = Slice(call.pieces[n + 1], 0, SettingsOverlap(call))

\* para occurs in text, character for character
Occurs(para, text) ==
    \E i \in 0..(Len(text) - Len(para)) : SubSeq(text, i + 1, i + Len(para)) = para

\* the chunks from place n on are the hard-split slices of para
SlicesFrom(para, objects, n, size, overlap) ==
    /\ Len(para) > size
    /\ \A i \in 1..Len(HardSplit(para, size, overlap)) :
           /\ n + i - 1 <= Len(objects)
           /\ objects[n + i - 1].text = HardSplit(para, size, overlap)[i]

\* para is in the chunks at place n: whole inside chunk n, or as the slices
\* that start there
ContainedAt(para, objects, n, size, overlap) ==
    \/ Occurs(para, objects[n].text)
    \/ SlicesFrom(para, objects, n, size, overlap)

\* C27: chunking loses no content: when chunk_text succeeds, every non-blank
\* paragraph of the text, trimmed, is in the chunks character for character
\* and in the order of the text, whole inside one chunk or as its
\* consecutive hard-split slices.
C27_NoContentLost ==
    (call.op = "chunk_text" /\ call.raised = OK)
        => LET paras == TrimmedParagraphs(call.text)
               objects == call.chunk_objects
           IN  \E place \in [1..Len(paras) -> 1..Len(objects)] :
                   /\ \A j \in 1..Len(paras) :
                          ContainedAt(paras[j], objects, place[j],
                                      SettingsBudget(call), SettingsOverlap(call))
                   /\ \A i, j \in 1..Len(paras) : i < j => place[i] <= place[j]

(***************************************************************************)
(* Properties of the evaluator (EvaluationService).                        *)
(***************************************************************************)

\* the fraction f is n / d, and lies between 0 and 1
IsRatio(f, n, d) ==
    /\ f.den > 0
    /\ f.num * d = n * f.den
    /\ 0 <= f.num /\ f.num <= f.den

\* C22: for all sets expected and found, recall is
\* |expected & found| / |expected|, and 1 when expected is empty whatever
\* found is; precision is |expected & found| / |found|, and 0 when found is
\* empty whatever expected is; both lie in [0, 1].
C22_RecallAndPrecision ==
    LET common == Cardinality(call.expected \cap call.found)
    IN  /\ call.op = "_calculate_recall"
               => IF call.expected = {}
                  THEN IsRatio(call.ratio, 1, 1)
                  ELSE IsRatio(call.ratio, common, Cardinality(call.expected))
        /\ call.op = "_calculate_precision"
               => IF call.found = {}
                  THEN IsRatio(call.ratio, 0, 1)
                  ELSE IsRatio(call.ratio, common, Cardinality(call.found))

\* C22 witness: recall was computed with nothing expected and something
\* found.
C22_Witness ==
    /\ call.op = "_calculate_recall"
    /\ call.expected = {} /\ call.found = {"a.txt", "z.txt"}
    /\ call.ratio.num = call.ratio.den

====
